---- MODULE Spec2Model ----
(***************************************************************************)
(* Fixed-point solver for the effective surface energy of the MPL          *)
(* visco-elastic model (main.py: sweep over nu; XPB_plot.py: sweep over    *)
(* the unloading rate r_u mapped to nu).                                   *)
(*                                                                         *)
(* Numbers.  A scalar is a record [t, p, q]:                               *)
(*   t = "fin"   the rational p/q (q > 0, lowest terms);                   *)
(*   t = "nan", "pinf", "ninf"   the non-finite values of float / mpf;     *)
(*   t = "cnear", "cfar"   a complex value (mpc), as produced by a         *)
(*       negative base raised to a fractional power; "cnear" stands for    *)
(*       the complex values whose distance to the current estimate is      *)
(*       below the tolerance, "cfar" for the others;                       *)
(*   t = "none"  Python's None / an unbound local.                         *)
(* Rounding of finite values is not modelled: finite arithmetic is exact.  *)
(* The exponent n is kept in tenths (n = 0.2 is 2, n = 1 is 10).           *)
(* The rate nu (and r_u) is kept as a sign and a base-10 logarithm in      *)
(* thousandths of a decade: [sgn, mlog] is sgn * 10^(mlog/1000).           *)
(***************************************************************************)
EXTENDS Integers, Sequences, FiniteSets, TLC

\* ------------------------------------------------------------------ bounds
\* Largest max_iter a solve is given (the source's default is 200).
MaxIter == 2
\* Number of grid points of the sweep (the source's num_points is 200).
NumPoints == 2
\* Number of direct invocations of the solver in one behaviour.
MaxCalls == 2

\* ----------------------------------------------------------------- scalars
RECURSIVE Gcd(_, _)
Gcd(a, b) == IF b = 0 THEN a ELSE Gcd(b, a % b)

AbsInt(a) == IF a < 0 THEN -a ELSE a

Special(tag) == [t |-> tag, p |-> 0, q |-> 1]

NaN == Special("nan")
PInf == Special("pinf")
NInf == Special("ninf")
CNear == Special("cnear")
CFar == Special("cfar")
None == Special("none")

\* The rational p/q in lowest terms, q /= 0.
Fin(p, q) ==
  LET g == Gcd(AbsInt(p), AbsInt(q))
      s == IF q < 0 THEN -1 ELSE 1
  IN [t |-> "fin", p |-> (s * p) \div g, q |-> (s * q) \div g]

Zero == Fin(0, 1)
One == Fin(1, 1)

IsFin(v) == v.t = "fin"
IsNaN(v) == v.t = "nan"
IsInf(v) == v.t \in {"pinf", "ninf"}
IsCplx(v) == v.t \in {"cnear", "cfar"}
IsZero(v) == IsFin(v) /\ v.p = 0
\* Sign of a real scalar: -1, 0, 1.
Sgn(v) ==
  IF v.t = "pinf" THEN 1
  ELSE IF v.t = "ninf" THEN -1
  ELSE IF v.p > 0 THEN 1 ELSE IF v.p < 0 THEN -1 ELSE 0

InfOf(s) == IF s > 0 THEN PInf ELSE NInf

\* a * b (float * mpf -> mpf; 0 * inf = nan; 0 * complex = complex zero, which
\* leaves the update at the complex 1, at distance 0 of the seed).
Mul(a, b) ==
  IF IsNaN(a) \/ IsNaN(b) THEN NaN
  ELSE IF IsCplx(a) \/ IsCplx(b)
    THEN IF IsZero(a) \/ IsZero(b) THEN CNear
         ELSE IF IsCplx(a) THEN a ELSE b
  ELSE IF IsInf(a) \/ IsInf(b)
    THEN IF Sgn(a) * Sgn(b) = 0 THEN NaN ELSE InfOf(Sgn(a) * Sgn(b))
  ELSE Fin(a.p * b.p, a.q * b.q)

\* a - b (inf - inf = nan).
Sub(a, b) ==
  IF IsNaN(a) \/ IsNaN(b) THEN NaN
  ELSE IF IsCplx(a) THEN a
  ELSE IF IsCplx(b) THEN b
  ELSE IF IsInf(a) /\ IsInf(b) THEN (IF a = b THEN NaN ELSE a)
  ELSE IF IsInf(a) THEN a
  ELSE IF IsInf(b) THEN InfOf(-Sgn(b))
  ELSE Fin(a.p * b.q - b.p * a.q, a.q * b.q)

\* 1 / d (1 / inf = 0).  The division raises for d = 0, see DivisionRaises;
\* a quotient that did not raise would be infinite.
Recip(d) ==
  IF IsNaN(d) \/ IsCplx(d) THEN d
  ELSE IF IsInf(d) THEN Zero
  ELSE IF IsZero(d) THEN PInf
  ELSE Fin(d.q, d.p)

\* abs(a); the modulus of a complex value keeps its class.
Abs(a) ==
  IF IsNaN(a) \/ IsCplx(a) THEN a
  ELSE IF IsInf(a) THEN PInf
  ELSE Fin(AbsInt(a.p), a.q)

\* a < b for a real or complex-modulus a and a finite b; every comparison
\* with nan is false.
Less(a, b) ==
  IF IsNaN(a) \/ IsNaN(b) THEN FALSE
  ELSE IF IsCplx(a) THEN a.t = "cnear"
  ELSE IF IsInf(a) THEN a.t = "ninf" /\ b.t /= "ninf"
  ELSE IF IsInf(b) THEN b.t = "pinf"
  ELSE a.p * b.q < b.p * a.q

\* float(x): an mpf at the default 53-bit precision converts to the float of
\* the same value; an mpc has no conversion to float.
FloatRaises(v) == IsCplx(v)
Float(v) == IF IsCplx(v) THEN None ELSE v

\* ------------------------------------------------------- model parameters
\* k = 0.10
k_model == Fin(1, 10)
\* n_list, in tenths; two of the source's five exponents, one on each side
\* of n = 1.
n_list == <<2, 16>>
\* Defaults of gamma_eff: tol (1e-10 in the source; every non-zero distance
\* between two estimates of the model is larger than either) and max_iter.
tol_default == Fin(1, 1000)
max_iter_default == MaxIter

\* Grid bounds as base-10 logarithms, in thousandths of a decade.
nu_min == -2000
nu_max == 8000
ru_min == -2000
ru_max == 10000
\* Conversion constants of XPB_plot.py, in the same unit: log10(2.887),
\* log10(3.24 * pi^(2/3)), and the exponent 1.171 in thousandths.
C1 == 460
C2 == 842
RatePower == 1171

Pos(mlog) == [sgn |-> 1, mlog |-> mlog]

\* np.logspace(lo, hi, num): 10 ** linspace(lo, hi, num).
logspace(lo, hi, num) ==
  [i \in 1..num |->
     Pos(IF num = 1 THEN lo ELSE lo + ((i - 1) * (hi - lo)) \div (num - 1))]

nu_vals_main == logspace(nu_min, nu_max, NumPoints)
ru_vals == logspace(ru_min, ru_max, NumPoints)

\* nu = C1 * (r_u / C2) ** 1.171, in the logarithm.
RuToNu(ru) == Pos(C1 + (RatePower * (ru.mlog - C2)) \div 1000)

nu_vals_PB == [i \in 1..NumPoints |-> RuToNu(ru_vals[i])]

\* The x values a script plots against, and the nu values it solves for.
x_vals(program) == IF program = "main" THEN nu_vals_main ELSE ru_vals
nu_vals(program) == IF program = "main" THEN nu_vals_main ELSE nu_vals_PB

\* ------------------------------------------------------------------ kernel
\* A denominator parameter (in twentieths) at which a hypergeometric series
\* has a pole: a non-positive integer.
IsPole(b20) == b20 <= 0 /\ b20 % 20 = 0

RaiseOut(kind, hyper) == [raises |-> kind, value |-> None, hyper |-> hyper]
ValueOut(v) == [raises |-> "", value |-> v, hyper |-> 3]

\* The values mp.hyper and mp.gamma may give the kernel: the library is not
\* computed here; I_value is a function of (n, nu, Gamma) whose value at each
\* argument is chosen when it is first evaluated and kept (memo).  5/9 and
\* 10/9 put the update denominator of k = 0.10 at 1/2 and at 0; nan stands
\* for the non-finite values.
IVals == {Zero, Fin(5, 9), Fin(10, 9), NaN}

\* (Gamma / nu) ** n is complex when the base is negative (n is not an
\* integer wherever this line is reached) or already complex.
KernelRange(n_, nu_, Gamma_) ==
  IF IsCplx(Gamma_) \/ (~IsNaN(Gamma_) /\ Sgn(Gamma_) * nu_.sgn < 0)
    THEN {CNear, CFar}
    ELSE IVals

\* I_value(n, nu, Gamma), v being the library's value at this argument.
I_value(n_, nu_, Gamma_, v) ==
  IF (n_ - 10) * nu_.sgn = 0
    THEN RaiseOut("ZeroDivisionError", 0)           \* pre: / ((n - 1) * nu)
  ELSE IF IsPole(10 - n_) \/ IsPole(20 - n_)
    THEN RaiseOut("ZeroDivisionError", 1)           \* hyper1
  ELSE IF IsPole(10) \/ IsPole(20 + n_)
    THEN RaiseOut("ZeroDivisionError", 2)           \* hyper2
  ELSE IF IsPole(30) \/ IsPole(30 + n_)
    THEN RaiseOut("ZeroDivisionError", 3)           \* hyper3
  ELSE IF IsPole(20 - n_) \/ IsPole(30 - n_)
    THEN RaiseOut("ValueError", 3)                  \* mp.gamma in term2
  ELSE ValueOut(v)

\* ------------------------------------------------------------------- state
VARIABLES
  n, k, nu, tol, max_iter,  \* arguments of the running (or last) solve
  Gamma, I, Gamma_next,     \* its locals
  it,                       \* completed passes of `for _ in range(max_iter)`
  state,                    \* "Idle", "Iterating", "Converged", "Failed", "Raised"
  result,                   \* the value returned, None while there is none
  err,                      \* the exception that ended the solve
  evals,                    \* calls of I_value made by this solve
  hyperCalls,               \* calls of mp.hyper made by this solve
  met,                      \* this solve had a pass that met the tolerance
  memo,                     \* the kernel's values at the arguments evaluated so far
  hist,                     \* every finished solve: its arguments and its outcome
  calls,                    \* direct invocations made
  prog, pc, ni, xi,         \* the script: which file, where it is, loop indices
  gamma_vals,               \* values collected for the current n
  curves,                   \* the curves handed to plt.loglog
  solved                    \* the (n index, grid index) pairs gamma_eff was called for

solverVars == <<n, k, nu, tol, max_iter, Gamma, I, Gamma_next, it, state,
                result, err, evals, hyperCalls, met, memo, hist>>
scriptVars == <<prog, pc, ni, xi, gamma_vals, curves, solved>>
vars == <<solverVars, scriptVars, calls>>

NoErr == [kind |-> "none"]
\* RuntimeError(f"Convergence failed at nu = {nu:g}")
ConvergenceError(n_, nu_) ==
  [kind |-> "RuntimeError", text |-> "Convergence failed at", nu |-> nu_]
Exception(kind) == [kind |-> kind]

Args == [n |-> n, k |-> k, nu |-> nu, tol |-> tol, max_iter |-> max_iter]
Outcome(state_, result_, err_, evals_) ==
  [state |-> state_, result |-> result_, err |-> err_, evals |-> evals_]

\* ------------------------------------------------------------------ solver
\* Faulty variant: the estimate of the previous solve is carried over.
StaleSeed == [Gamma |-> IF Gamma = None THEN One ELSE Gamma, it |-> 0]

\* Gamma = 1.0 and the loop counter, at the top of gamma_eff.
Seed == [Gamma |-> One, it |-> 0]

\* Faulty variant: k taken for its complement.
DenominatorNoComplement(k_, I_) == Sub(One, Mul(k_, I_))

\* 1.0 - (1.0 - k) * I
Denominator(k_, I_) == Sub(One, Mul(Sub(One, k_), I_))

\* Faulty variant: a division that gives inf for d = 0, as IEEE arithmetic does.
DivisionNeverRaises(d) == FALSE

\* 1.0 / d raises for d = 0 (float and mpf alike).
DivisionRaises(d) == IsZero(d)

\* Faulty variant: the test written as `not (abs(Gamma_next - Gamma) >= tol)`.
WithinNegated(gn, g, tol_) ==
  ~Less(tol_, Abs(Sub(gn, g))) /\ Abs(Sub(gn, g)) /= tol_

\* abs(Gamma_next - Gamma) < tol
Within(gn, g, tol_) == Less(Abs(Sub(gn, g)), tol_)

\* Faulty variant: the previous estimate is returned.
ReturnedPrevious(gn, g) == Float(g)

\* return float(Gamma_next)
Returned(gn, g) == Float(gn)

\* Faulty variant: one pass too many.
LoopContinuesInclusive(it_, max_iter_) == it_ <= max_iter_

\* for _ in range(max_iter): there is a next pass.
LoopContinues(it_, max_iter_) == it_ < max_iter_

\* Entry of gamma_eff(n, k, nu, tol, max_iter).
Enter(n_, k_, nu_, tol_, max_iter_) ==
  /\ n' = n_ /\ k' = k_ /\ nu' = nu_ /\ tol' = tol_ /\ max_iter' = max_iter_
  /\ Gamma' = Seed.Gamma
  /\ it' = Seed.it
  /\ I' = None /\ Gamma_next' = None
  /\ state' = "Iterating"
  /\ result' = None /\ err' = NoErr
  /\ evals' = 0 /\ hyperCalls' = 0 /\ met' = FALSE
  /\ UNCHANGED <<memo, hist>>

\* The solve ends: what it leaves behind.
Finish(state_, result_, err_, evals_) ==
  /\ state' = state_ /\ result' = result_ /\ err' = err_
  /\ hist' = hist \cup {[args |-> Args, out |-> Outcome(state_, result_, err_, evals_)]}

Key == [n |-> n, nu |-> nu, Gamma |-> Gamma]

\* One pass of the loop body.  (Each intermediate value is bound once, as the
\* element of a singleton.)
Iterate ==
  /\ state = "Iterating"
  /\ LoopContinues(it, max_iter)
  /\ \E v \in KernelRange(n, nu, Gamma) :
     \E out \in {I_value(n, nu, Gamma, v)} :
     \E d \in {Denominator(k, out.value)} :
     \E gn \in {Recip(d)} :
     \E within \in {Within(gn, Gamma, tol)} :
          /\ Key \in DOMAIN memo => v = memo[Key]
          /\ evals' = evals + 1
          /\ hyperCalls' = hyperCalls + out.hyper
          /\ memo' = IF out.raises = "" /\ Key \notin DOMAIN memo
                       THEN memo @@ (Key :> v) ELSE memo
          /\ IF out.raises /= ""
               THEN /\ Finish("Raised", None, Exception(out.raises), evals + 1)
                    /\ UNCHANGED <<I, Gamma_next, Gamma, it, met>>
             ELSE IF DivisionRaises(d)
               THEN /\ I' = out.value
                    /\ Finish("Raised", None, Exception("ZeroDivisionError"), evals + 1)
                    /\ UNCHANGED <<Gamma_next, Gamma, it, met>>
             ELSE IF within
               THEN /\ I' = out.value /\ Gamma_next' = gn /\ met' = TRUE
                    /\ IF FloatRaises(gn)
                         THEN Finish("Raised", None, Exception("TypeError"), evals + 1)
                         ELSE Finish("Converged", Returned(gn, Gamma), NoErr, evals + 1)
                    /\ UNCHANGED <<Gamma, it>>
             ELSE /\ I' = out.value /\ Gamma_next' = gn
                  /\ Gamma' = gn
                  /\ it' = it + 1
                  /\ UNCHANGED <<state, result, err, hist, met>>
  /\ UNCHANGED <<n, k, nu, tol, max_iter>>

\* The loop ran out: raise RuntimeError.
Exhaust ==
  /\ state = "Iterating"
  /\ ~LoopContinues(it, max_iter)
  /\ Finish("Failed", None, ConvergenceError(n, nu), evals)
  /\ UNCHANGED <<n, k, nu, tol, max_iter, Gamma, I, Gamma_next, it, evals,
                 hyperCalls, met, memo>>

\* ---------------------------------------------------- direct invocations
\* Arguments a caller may pass: n = 0.2, 1, 1.6, 2; nu = -1, 0, 1;
\* k = 0.10, 1; two tolerances; max_iter from 0.
NArgs == {2, 10, 16, 20}
NuArgs == {[sgn |-> -1, mlog |-> 0], [sgn |-> 0, mlog |-> 0], Pos(0)}
KArgs == {k_model, One}
TolArgs == {tol_default, Fin(3, 2)}

InitSolver ==
  /\ n = 2 /\ k = k_model /\ nu = Pos(0) /\ tol = tol_default /\ max_iter = 0
  /\ Gamma = None /\ I = None /\ Gamma_next = None /\ it = 0
  /\ state = "Idle" /\ result = None /\ err = NoErr
  /\ evals = 0 /\ hyperCalls = 0 /\ met = FALSE
  /\ memo = << >> /\ hist = {}

Init ==
  /\ InitSolver
  /\ calls = 0
  /\ prog = "none" /\ pc = "none" /\ ni = 0 /\ xi = 0
  /\ gamma_vals = << >> /\ curves = << >> /\ solved = {}

\* gamma_eff(n, k, nu) as the scripts call it: tol and max_iter are left at
\* their defaults.  Calls follow one another in one interpreter.
Call ==
  /\ state /= "Iterating"
  /\ calls < MaxCalls
  /\ calls' = calls + 1
  /\ \E n_ \in NArgs, nu_ \in NuArgs :
       Enter(n_, k_model, nu_, tol_default, max_iter_default)
  /\ UNCHANGED scriptVars

Next ==
  \/ Call
  \/ (Iterate /\ UNCHANGED <<scriptVars, calls>>)
  \/ (Exhaust /\ UNCHANGED <<scriptVars, calls>>)

Spec == Init /\ [][Next]_vars

\* One invocation on its own, from its entry to its end: the arguments are
\* drawn at the start.  The interpreter keeps executing the loop it is in.
SolveInit ==
  /\ n \in NArgs /\ k \in KArgs /\ nu \in NuArgs /\ tol \in TolArgs
  /\ max_iter \in 0..MaxIter
  /\ Gamma = One /\ it = 0
  /\ I = None /\ Gamma_next = None
  /\ state = "Iterating" /\ result = None /\ err = NoErr
  /\ evals = 0 /\ hyperCalls = 0 /\ met = FALSE
  /\ memo = << >> /\ hist = {}
  /\ calls = 1
  /\ prog = "none" /\ pc = "none" /\ ni = 0 /\ xi = 0
  /\ gamma_vals = << >> /\ curves = << >> /\ solved = {}

SolveNext ==
  \/ (Iterate /\ UNCHANGED <<scriptVars, calls>>)
  \/ (Exhaust /\ UNCHANGED <<scriptVars, calls>>)

SolveSpec == SolveInit /\ [][SolveNext]_vars /\ WF_vars(SolveNext)

\* ------------------------------------------------------------- the scripts
Programs == {"main", "XPB_plot"}

SweepInit ==
  /\ InitSolver
  /\ calls = 0
  /\ prog \in Programs
  /\ pc = "loop" /\ ni = 1 /\ xi = 1
  /\ gamma_vals = << >> /\ curves = << >> /\ solved = {}

\* [gamma_eff(n, k, nu) for nu in nu_vals]: the next call.
SweepCall ==
  /\ pc = "loop"
  /\ state = "Idle"
  /\ Enter(n_list[ni], k_model, nu_vals(prog)[xi], tol_default, max_iter_default)
  /\ solved' = solved \cup {<<ni, xi>>}
  /\ UNCHANGED <<prog, pc, ni, xi, gamma_vals, curves, calls>>

\* Faulty variant: the new value is put in front.
Prepend(vals, g) == <<g>> \o vals

\* The list under construction, with one more value.
Collect(vals, g) == Append(vals, g)

\* plt.loglog(x, gamma_vals, label = n)
Curve(n_, x, y) == [n |-> n_, x |-> x, y |-> y]

\* The call returned: the value joins the list; after the last grid point the
\* curve is plotted and the loop moves to the next n, or the script ends.
SweepReturn ==
  /\ pc = "loop"
  /\ state = "Converged"
  /\ state' = "Idle"
  /\ LET vals == Collect(gamma_vals, result)
     IN IF xi < NumPoints
          THEN /\ gamma_vals' = vals
               /\ xi' = xi + 1
               /\ UNCHANGED <<ni, curves, pc>>
          ELSE /\ curves' = Append(curves, Curve(n_list[ni], x_vals(prog), vals))
               /\ gamma_vals' = << >>
               /\ xi' = 1
               /\ ni' = ni + 1
               /\ pc' = IF ni < Len(n_list) THEN "loop" ELSE "done"
  /\ UNCHANGED <<n, k, nu, tol, max_iter, Gamma, I, Gamma_next, it, result, err,
                 evals, hyperCalls, met, memo, hist, prog, solved, calls>>

\* The call raised: nothing catches the exception, the script ends there.
SweepAbort ==
  /\ pc = "loop"
  /\ state \in {"Failed", "Raised"}
  /\ pc' = "aborted"
  /\ UNCHANGED <<solverVars, prog, ni, xi, gamma_vals, curves, solved, calls>>

SweepNext ==
  \/ SweepCall
  \/ (Iterate /\ UNCHANGED <<scriptVars, calls>>)
  \/ (Exhaust /\ UNCHANGED <<scriptVars, calls>>)
  \/ SweepReturn
  \/ SweepAbort

SweepSpec == SweepInit /\ [][SweepNext]_vars

\* ------------------------------------------------------------- properties
Ended == state \in {"Converged", "Failed", "Raised"}
AllPairs == (1..Len(n_list)) \X (1..NumPoints)
ScriptEnded == pc \in {"done", "aborted"}
\* The argument at which the first pass of the running solve evaluates the kernel.
FirstKey == [n |-> n, nu |-> nu, Gamma |-> One]
NuOfX(program, x) == IF program = "main" THEN x ELSE RuToNu(x)

\* C1: a failing solve does not abort the sweep: when the script has ended,
\* every (n, grid point) pair has been solved and every n has its curve.
C1_SweepSurvivesFailure ==
  ScriptEnded => (solved = AllPairs /\ Len(curves) = Len(n_list))

\* C2: a kernel invoked with n = 1 or nu <= 0 raises at once, before any
\* hypergeometric evaluation.
C2_DomainRejectedBeforeHyper ==
  (evals >= 1 /\ (n = 10 \/ nu.sgn <= 0)) => (state = "Raised" /\ hyperCalls = 0)

C4_FailureNamesNuAndN ==
  state = "Failed" =>
    /\ "nu" \in DOMAIN err /\ err.nu = nu
    /\ "n" \in DOMAIN err /\ err.n = n

\* C5: every value of a curve is finite: a solve returns a finite value or
\* ends with an exception, and a nan or infinite Gamma_next is never accepted.
C5_CurvesFinite ==
  /\ \A i \in DOMAIN gamma_vals : IsFin(gamma_vals[i])
  /\ \A j \in DOMAIN curves : \A i \in DOMAIN curves[j].y : IsFin(curves[j].y[i])
  /\ state = "Converged" => (IsFin(result) /\ IsFin(Gamma_next) /\ result = Gamma_next)
  /\ state \in {"Failed", "Raised"} => (result = None /\ err /= NoErr)
  /\ \A h \in hist : h.out.state = "Converged" => IsFin(h.out.result)

C5_Witness ==
  /\ pc = "aborted" /\ state = "Failed"
  /\ IsNaN(Gamma)
  /\ Len(curves) >= 1

C7_CurvesOrdered ==
  pc = "done" =>
    /\ Len(curves) = Len(n_list)
    /\ \A j \in DOMAIN curves :
         LET c == curves[j]
         IN /\ c.n = n_list[j]
            /\ Len(c.x) = NumPoints /\ Len(c.y) = NumPoints
            /\ \A i \in 1..(NumPoints - 1) : c.x[i].mlog < c.x[i + 1].mlog
            /\ \A i \in 1..NumPoints :
                 \E h \in hist :
                   /\ h.args.n = c.n /\ h.args.k = k_model
                   /\ h.args.nu = NuOfX(prog, c.x[i])
                   /\ h.out.state = "Converged"
                   /\ h.out.result = c.y[i]

C7_Witness ==
  /\ pc = "done" /\ prog = "XPB_plot"
  /\ \E j \in DOMAIN curves : curves[j].y[1] /= curves[j].y[NumPoints]

C9_ReturnsGammaNextWithinTol ==
  /\ [][(state = "Iterating" /\ evals' = evals + 1) =>
          /\ result' /= None =>
               /\ state' = "Converged"
               /\ Less(Abs(Sub(Gamma_next', Gamma)), tol)
               /\ result' = Gamma_next'
          /\ state' = "Iterating" =>
               /\ ~Less(Abs(Sub(Gamma_next', Gamma)), tol)
               /\ Gamma' = Gamma_next'
               /\ result' = None]_vars
  /\ [](result /= None => state = "Converged")

C9_Witness ==
  /\ state = "Converged" /\ result = Gamma_next
  /\ Gamma /= Gamma_next /\ evals >= 1

\* C10 as claimed: a solve ends Converged or Failed, after at most max_iter
\* kernel evaluations; Failed only after exactly max_iter evaluations none of
\* which met the tolerance; with max_iter = 0 it fails without evaluating.
C10_EndsConvergedOrFailed ==
  /\ evals <= max_iter
  /\ Ended => state \in {"Converged", "Failed"}
  /\ state = "Failed" => (evals = max_iter /\ ~met)
  /\ (Ended /\ max_iter = 0) => (state = "Failed" /\ evals = 0)

\* C10, amended: a solve ends, after at most max_iter kernel evaluations,
\* Converged, Failed, or with an exception raised in a pass; the rest as
\* claimed.
C10_SolveTerminates ==
  /\ [](/\ evals <= max_iter
        /\ state = "Failed" => (evals = max_iter /\ ~met /\ err.kind = "RuntimeError")
        /\ state = "Raised" => (evals >= 1 /\ err.kind /= "RuntimeError" /\ err /= NoErr)
        /\ state = "Converged" => (met /\ evals >= 1)
        /\ (Ended /\ max_iter = 0) => (state = "Failed" /\ evals = 0))
  /\ ((state = "Iterating") ~> Ended)

C10_Witness ==
  /\ state = "Failed" /\ max_iter >= 2 /\ evals = max_iter
  /\ Gamma /= One
====
